---- MODULE Spec2Model ----
(***************************************************************************)
(* Model of loopers-gui/src/app.rs: the inline tempo editor (TempoView),  *)
(* the draw memoization cache (DrawCache), the scrolling waveform of a    *)
(* track (WaveformView) and the page that draws them all (MainPage).      *)
(*                                                                         *)
(* Text is a sequence of Unicode code points.  Pixel quantities of the    *)
(* cache are counted in eighths of a pixel so that the truncation of      *)
(* `(w * IMAGE_SCALE) as i32` is visible.  Tempi are counted in           *)
(* hundredths of a bpm so that the truncation of `bpm() as u32` is        *)
(* visible.                                                                *)
(***************************************************************************)
EXTENDS Naturals, Integers, Sequences, FiniteSets, TLC

VARIABLES
    state,          \* TempoView.state
    old_state,      \* TempoView.state when the frame just drawn began
    button_state,   \* TempoView.button_state
    last_event,     \* the Option<GuiEvent> of the frame just drawn
    data,           \* the AppData snapshot of the frame just drawn
    connected,      \* whether the command channel still has its receiver
    sends,          \* the sender.send calls made by the frame just drawn
    image,          \* DrawCache.image (its pixel size, or None)
    key,            \* DrawCache.key
    old_image,      \* DrawCache.image when the call just made began
    old_key,        \* DrawCache.key when the call just made began
    call,           \* the arguments of the DrawCache.draw call just made
    draw_fn_calls,  \* the invocations of draw_fn made by that call
    blits,          \* the canvas.draw_image calls made by that call
    history,        \* every use_cache call so far: its key, its pixel
                    \* size and whether it invoked draw_fn
    looper,         \* the LooperData given to the WaveformView::draw just made
    time,           \* data.engine_state.time of that frame
    waveform,       \* WaveformView.waveform (a DrawCache)
    old_waveform,   \* WaveformView.waveform when that frame began
    beats,          \* WaveformView.beats (a DrawCache)
    shown,          \* what that frame drew
    loopers,        \* MainPage.loopers: id -> the button states of its view
    old_ids,        \* the ids of MainPage.loopers when the frame began
    beat_animation, \* MainPage.beat_animation
    old_beat_animation, \* MainPage.beat_animation when the frame began
    add_button,     \* MainPage.add_button.state
    snapshot,       \* the AppData given to the MainPage::draw just made
    pointer,        \* the pointer event of that frame
    playhead,       \* the progress value and stroke width of the play head
    commands,       \* every sender.send call of that frame, in order
    clicks,         \* every on_click invocation of that frame, in order
    frame,          \* how the last MainPage::draw ended
    clock,          \* UNIX_EPOCH.elapsed() in ms as the frame just drawn read it
    caret           \* the editor state the cursor was drawn for, and whether
                    \* the cursor path was drawn

vars == <<state, old_state, button_state, last_event, data, connected, sends,
          image, key, old_image, old_key, call, draw_fn_calls, blits, history,
          looper, time, waveform, old_waveform, beats, shown,
          loopers, old_ids, beat_animation, old_beat_animation, add_button,
          snapshot, pointer, playhead, commands, clicks, frame,
          clock, caret>>

caretVars == <<clock, caret>>

pageVars == <<loopers, old_ids, beat_animation, old_beat_animation, add_button,
              snapshot, pointer, playhead, commands, clicks, frame>>

waveVars == <<looper, time, waveform, old_waveform, beats, shown>>

tempoVars == <<state, old_state, button_state, last_event, data, connected, sends>>
cacheVars == <<image, key, old_image, old_key, call, draw_fn_calls, blits, history>>

None == "None"

(***************************************************************************)
(* Characters and strings                                                  *)
(***************************************************************************)

\* '0' '1' '2' 'a' and U+00BD (vulgar fraction one half)
Chars == {48, 49, 50, 97, 189}

\* The rows of the Unicode general category N that lie in Chars.
UnicodeN == {189}

\* char::is_numeric: '0'..='9', or above U+007F and in category N.
is_numeric(c) == (c >= 48 /\ c <= 57) \/ (c > 127 /\ c \in UnicodeN)

\* char::len_utf8
len_utf8(c) == IF c < 128 THEN 1 ELSE IF c < 2048 THEN 2 ELSE IF c < 65536 THEN 3 ELSE 4

RECURSIVE len(_)
\* String::len: the length in bytes of the UTF-8 encoding.
len(s) == IF s = <<>> THEN 0 ELSE len_utf8(Head(s)) + len(Tail(s))

\* String::push
push(s, c) == Append(s, c)

\* String::pop: removes the last char, if any.
pop(s) == IF s = <<>> THEN s ELSE SubSeq(s, 1, Len(s) - 1)

\* String::is_empty
is_empty(s) == s = <<>>

IsAsciiDigit(c) == c >= 48 /\ c <= 57

RECURSIVE DecimalValue(_)
DecimalValue(s) ==
    IF s = <<>> THEN 0
    ELSE DecimalValue(SubSeq(s, 1, Len(s) - 1)) * 10 + (s[Len(s)] - 48)

\* f32::from_str on a text over Chars (no sign, point or exponent letter
\* is in Chars): Ok(value) for a non-empty run of ASCII digits, else Err.
from_str(s) ==
    IF s # <<>> /\ \A i \in 1..Len(s) : IsAsciiDigit(s[i])
    THEN [ok |-> TRUE, val |-> DecimalValue(s)]
    ELSE [ok |-> FALSE, val |-> 0]

RECURSIVE format(_)
\* format!("{}", n) for n: u32
format(n) == IF n < 10 THEN <<48 + n>> ELSE format(n \div 10) \o <<48 + (n % 10)>>

\* `bpm() as u32` of a non-negative tempo given in hundredths: truncation.
as_u32(bpm) == bpm \div 100

(***************************************************************************)
(* Inputs of a frame                                                       *)
(***************************************************************************)

\* Snapshot tempi, in hundredths of a bpm: 99.5, 120 and 1000 bpm.
Tempos == {9950, 12000, 100000}

NoEvent == [kind |-> None, typ |-> None, button |-> None, inside |-> FALSE,
            key |-> None, c |-> 0]

MouseEvent(typ, button, inside) ==
    [kind |-> "MouseEvent", typ |-> typ, button |-> button, inside |-> inside,
     key |-> None, c |-> 0]

KeyEvent(typ, k, c) ==
    [kind |-> "KeyEvent", typ |-> typ, button |-> None, inside |-> FALSE,
     key |-> k, c |-> c]

\* `inside` is whether the position, mapped through the inverse of the
\* canvas matrix, lies in the bounds of the widget being drawn.
MouseEvents ==
    {MouseEvent("MouseDown", b, i) : b \in {"Left", "Right"}, i \in BOOLEAN}
    \cup {MouseEvent("MouseUp", "Left", i) : i \in BOOLEAN}
    \cup {MouseEvent("Moved", None, i) : i \in BOOLEAN}

KeyEvents ==
    {KeyEvent("Pressed", "Char", c) : c \in Chars}
    \cup {KeyEvent("Released", "Char", 49)}
    \cup {KeyEvent(t, k, 0) : t \in {"Pressed", "Released"},
                              k \in {"Backspace", "Enter", "Esc"}}

GuiEvents == {NoEvent} \cup MouseEvents \cup KeyEvents

(***************************************************************************)
(* TempoView                                                               *)
(***************************************************************************)

Default == [tag |-> "Default", selected |-> FALSE, buffer |-> <<>>]
Editing(selected, buffer) ==
    [tag |-> "Editing", selected |-> selected, buffer |-> buffer]

SetTempoBPM(tempo, ok) == [cmd |-> "SetTempoBPM", value |-> tempo, ok |-> ok]

\* Button::handle_event: the new button state and the button on_click
\* was called with (None when it was not called).
handle_event(bs, ev) ==
    IF ev.kind = "MouseEvent" /\ ev.inside
    THEN IF ev.typ = "MouseDown"
         THEN [state |-> "Pressed", clicked |-> ev.button]
         ELSE [state |-> "Hover", clicked |-> None]
    ELSE [state |-> "Default", clicked |-> None]

\* on_click with the tempo rounded to the nearest integer.
on_click_rounded(s, button, d) ==
    IF button = "Left"
    THEN Editing(TRUE, format((d.bpm + 50) \div 100))
    ELSE s

\* on_click seeding the buffer only when no edit is under way.
on_click_keeps_edit(s, button, d) ==
    IF button = "Left" /\ s.tag # "Editing"
    THEN Editing(TRUE, format(as_u32(d.bpm)))
    ELSE s

\* The on_click closure of TempoView::draw and the assignment after it.
on_click(s, button, d) ==
    IF button = "Left"
    THEN Editing(TRUE, format(as_u32(d.bpm)))
    ELSE s

\* "if there was a click elsewhere, clear our state"
click_elsewhere(ev) ==
    ev.kind = "MouseEvent" /\ ev.typ = "MouseDown" /\ ev.button = "Left"
    /\ ~ev.inside

\* The Char arm without the clearing of a selected buffer.
key_char_no_clear(s, c) ==
    IF is_numeric(c)
    THEN Editing(FALSE, IF len(s.buffer) < 3 THEN push(s.buffer, c) ELSE s.buffer)
    ELSE s

\* KeyEventKey::Char(c) arm
key_char(s, c) ==
    IF is_numeric(c)
    THEN LET cleared == IF s.selected THEN <<>> ELSE s.buffer
             edited  == IF len(cleared) < 3 THEN push(cleared, c) ELSE cleared
         IN  Editing(FALSE, edited)
    ELSE s

\* The Backspace arm ending the selection as the Char arm does.
key_backspace_deselects(s) ==
    IF s.selected THEN Editing(FALSE, <<>>)
    ELSE Editing(FALSE, pop(s.buffer))

\* KeyEventKey::Backspace arm
key_backspace(s) ==
    IF s.selected THEN Editing(s.selected, <<>>)
    ELSE Editing(s.selected, pop(s.buffer))

\* The key block with Enter as the only committing key.
key_pressed_enter_only(s, ev) ==
    IF s.tag = "Editing" /\ ev.kind = "KeyEvent" /\ ev.typ = "Pressed"
    THEN CASE ev.key = "Char"      -> [state |-> key_char(s, ev.c), commit |-> FALSE]
           [] ev.key = "Backspace" -> [state |-> key_backspace(s), commit |-> FALSE]
           [] ev.key = "Enter"     -> [state |-> s, commit |-> TRUE]
           [] OTHER                -> [state |-> s, commit |-> FALSE]
    ELSE [state |-> s, commit |-> FALSE]

\* The key block taking a released key as it takes a pressed one.
key_pressed_or_released(s, ev) ==
    IF s.tag = "Editing" /\ ev.kind = "KeyEvent"
    THEN CASE ev.key = "Char"      -> [state |-> key_char(s, ev.c), commit |-> FALSE]
           [] ev.key = "Backspace" -> [state |-> key_backspace(s), commit |-> FALSE]
           [] OTHER                -> [state |-> s, commit |-> TRUE]
    ELSE [state |-> s, commit |-> FALSE]

\* The `if let TempoViewState::Editing(..)` block: the edited state and
\* whether the key asks for a commit.
key_pressed(s, ev) ==
    IF s.tag = "Editing" /\ ev.kind = "KeyEvent" /\ ev.typ = "Pressed"
    THEN CASE ev.key = "Char"      -> [state |-> key_char(s, ev.c), commit |-> FALSE]
           [] ev.key = "Backspace" -> [state |-> key_backspace(s), commit |-> FALSE]
           [] OTHER                -> [state |-> s, commit |-> TRUE]
    ELSE [state |-> s, commit |-> FALSE]

\* commit returning early, the state not reset, when the send fails.
commit_returns_on_error(s, conn) ==
    [state |-> IF s.tag = "Editing" /\ from_str(s.buffer).ok /\ ~conn
               THEN s ELSE Default,
     sends |-> IF s.tag = "Editing" /\ from_str(s.buffer).ok
               THEN <<SetTempoBPM(from_str(s.buffer).val, conn)>>
               ELSE <<>>]

\* TempoView::commit: the state after it and the sends it makes.
commit(s, conn) ==
    [state |-> Default,
     sends |-> IF s.tag = "Editing" /\ from_str(s.buffer).ok
               THEN <<SetTempoBPM(from_str(s.buffer).val, conn)>>
               ELSE <<>>]

\* TempoView::draw for one frame.  The receiver of the channel may have
\* been dropped by the time the frame runs.
TempoViewDraw(ev, d, conn) ==
    LET h  == handle_event(button_state, ev)
        s1 == IF h.clicked # None THEN on_click(state, h.clicked, d) ELSE state
        k  == key_pressed(s1, ev)
        c  == IF click_elsewhere(ev) \/ k.commit
              THEN commit(k.state, conn)
              ELSE [state |-> k.state, sends |-> <<>>]
    IN  /\ button_state' = h.state
        /\ old_state' = state
        /\ state' = c.state
        /\ sends' = c.sends
        /\ last_event' = ev
        /\ data' = d
        /\ connected' = conn
        /\ UNCHANGED cacheVars

\* The editor state at the drawing of the cursor: after the click and the
\* key of the frame, before the commit.
state_at_cursor(bs, s, ev, d) ==
    LET h  == handle_event(bs, ev)
        s1 == IF h.clicked # None THEN on_click(s, h.clicked, d) ELSE s
    IN  key_pressed(s1, ev).state

\* if UNIX_EPOCH.elapsed().unwrap().as_millis() % 1500 > 500, in the
\* branch of Editing without selection.
cursor_drawn(s, millis) ==
    s.tag = "Editing" /\ ~s.selected /\ millis % 1500 > 500

\* Wall-clock readings, in ms, around the edges of two blink periods.
Clock == {0, 250, 500, 501, 1000, 1499, 1500, 2000, 2001}

\* The events that move the editor between its states.
CaretEvents ==
    {NoEvent, MouseEvent("MouseDown", "Left", TRUE),
     MouseEvent("MouseDown", "Left", FALSE), MouseEvent("Moved", None, TRUE),
     KeyEvent("Pressed", "Char", 49), KeyEvent("Pressed", "Backspace", 0),
     KeyEvent("Pressed", "Enter", 0)}

\* TempoView::draw for one frame, with the wall clock it reads.
CaretFrame ==
    \E ev \in CaretEvents, now \in Clock, conn \in {connected, FALSE} :
        /\ TempoViewDraw(ev, [bpm |-> 12000], conn)
        /\ clock' = now
        /\ caret' = [state |-> state_at_cursor(button_state, state, ev, [bpm |-> 12000]),
                     drawn |-> cursor_drawn(state_at_cursor(button_state, state, ev,
                                                            [bpm |-> 12000]), now)]
        /\ UNCHANGED waveVars /\ UNCHANGED pageVars

Frame ==
    \E ev \in GuiEvents, bpm \in Tempos, conn \in {connected, FALSE} :
        TempoViewDraw(ev, [bpm |-> bpm], conn)
        /\ UNCHANGED waveVars /\ UNCHANGED pageVars /\ UNCHANGED caretVars

(***************************************************************************)
(* DrawCache                                                               *)
(***************************************************************************)

Some(x) == <<x>>
NoneOpt == <<>>

IMAGE_SCALE == 4

\* Cache keys (T: Eq + Copy).
Keys == {1, 2}

\* Requested widths and heights in eighths of a pixel: 1, 1.125 and 1.5
\* pixels wide, 1 and 1.25 pixels high.
Widths == {8, 9, 12}
Heights == {8, 10}

\* The number of use_cache calls the history records.
MaxCalls == 3

\* `x as i32` of a non-negative length given in eighths: truncation.
as_i32(x) == x \div 8

\* The size without the supersampling factor.
pixel_size_unscaled(w, h) == [width |-> as_i32(w), height |-> as_i32(h)]

\* let size = ((w * IMAGE_SCALE) as i32, (h * IMAGE_SCALE) as i32);
pixel_size(w, h) == [width |-> as_i32(w * IMAGE_SCALE), height |-> as_i32(h * IMAGE_SCALE)]

\* The condition without the comparison of the bitmap's size.
stale_ignores_size(k, size) ==
    \/ key = NoneOpt
    \/ key # Some(k)
    \/ image = NoneOpt

\* The condition without the comparison of the key.
stale_ignores_key(k, size) ==
    \/ key = NoneOpt
    \/ image = NoneOpt
    \/ image # Some(size)

\* The condition under which the stored bitmap is rendered anew.
stale(k, size) ==
    \/ key = NoneOpt
    \/ key # Some(k)
    \/ image = NoneOpt
    \/ image # Some(size)

\* The live canvas, and an offscreen render target of a pixel size.
Canvas == [kind |-> "canvas", width |-> 0, height |-> 0]
Surface(size) == [kind |-> "surface", width |-> size.width, height |-> size.height]

\* One invocation of draw_fn: where it draws and the w, h it is given.
draw_fn(target, w, h) == [target |-> target, w |-> w, h |-> h]

\* The `if !use_cache` branch without its return: the stored bitmap is
\* drawn over the direct drawing.
draw_direct_no_return(k, w, h) ==
    /\ draw_fn_calls' = <<draw_fn(Canvas, w, h)>>
    /\ blits' = IF image # NoneOpt THEN 1 ELSE 0
    /\ UNCHANGED <<image, key, history>>

\* The `if !use_cache` branch.
draw_direct(k, w, h) ==
    /\ draw_fn_calls' = <<draw_fn(Canvas, w, h)>>
    /\ blits' = 0
    /\ UNCHANGED <<image, key, history>>

\* The rest of DrawCache::draw.
draw_cached(k, w, h) ==
    LET size == pixel_size(w, h)
    IN  /\ IF stale(k, size)
           THEN /\ draw_fn_calls' =
                       <<draw_fn(Surface(size), w * IMAGE_SCALE, h * IMAGE_SCALE)>>
                /\ image' = Some(size)
                /\ key' = Some(k)
           ELSE /\ draw_fn_calls' = <<>>
                /\ UNCHANGED <<image, key>>
        /\ blits' = IF image' # NoneOpt THEN 1 ELSE 0
        /\ history' = Append(history, [key |-> k, size |-> size,
                                       invoked |-> stale(k, size)])

\* DrawCache::draw
DrawCacheDraw(k, w, h, use_cache) ==
    /\ call' = Some([key |-> k, w |-> w, h |-> h, use_cache |-> use_cache])
    /\ old_image' = image
    /\ old_key' = key
    /\ IF ~use_cache THEN draw_direct(k, w, h) ELSE draw_cached(k, w, h)
    /\ UNCHANGED tempoVars
    /\ UNCHANGED waveVars
    /\ UNCHANGED pageVars
    /\ UNCHANGED caretVars

Draw ==
    \E k \in Keys, w \in Widths, h \in Heights :
        \/ DrawCacheDraw(k, w, h, FALSE)
        \/ Len(history) < MaxCalls /\ DrawCacheDraw(k, w, h, TRUE)

(***************************************************************************)
(* WaveformView                                                            *)
(*                                                                         *)
(* FrameTime is counted in the unit in which FrameTime::from_ms(12_000.0) *)
(* is 12000.  Horizontal positions are counted in the unit in which the   *)
(* viewport width w is w_units, fine enough for every position the frame  *)
(* computes to be a whole number; the f32/f64 rounding of the positions   *)
(* is not modelled.                                                       *)
(***************************************************************************)

WAVEFORM_WIDTH == 650
LOOPER_HEIGHT == 80

\* WAVEFORM_ZERO_RATIO is 0.25, one over this.
ZERO_RATIO_INV == 4

\* WaveformView.time_width
time_width == 12000

\* FrameTime::to_waveform: the number of envelope entries of a duration.
to_waveform(t) == t \div 700

\* The viewport width w.
w_units == ZERO_RATIO_INV * time_width * to_waveform(time_width)

\* w * WAVEFORM_ZERO_RATIO
zero_x == w_units \div ZERO_RATIO_INV

\* WaveformView::time_to_pixels
time_to_pixels(t) == (w_units \div time_width) * t

\* The mapping without the shift to the zero-ratio line.
time_to_x_unanchored(t) == time_to_pixels(t)

\* WaveformView::time_to_x
time_to_x(t) == time_to_pixels(t) - zero_x

\* f64::rem_euclid for a positive divisor
rem_euclid(a, b) == a % b

EmptyCache == [image |-> NoneOpt, key |-> NoneOpt]

\* The staleness test of DrawCache::draw on the cache c.
cache_stale(c, k, size) ==
    \/ c.key = NoneOpt
    \/ c.key # Some(k)
    \/ c.image = NoneOpt
    \/ c.image # Some(size)

\* DrawCache::draw on the cache c: the cache after the call, how often
\* draw_fn ran and how often the stored bitmap was blitted.
cache_draw(c, k, size, use_cache) ==
    IF ~use_cache THEN [cache |-> c, renders |-> 1, blits |-> 0]
    ELSE IF cache_stale(c, k, size)
         THEN [cache |-> [image |-> Some(size), key |-> Some(k)],
               renders |-> 1, blits |-> 1]
         ELSE [cache |-> c, renders |-> 0, blits |-> 1]

\* The key of the waveform cache.
waveform_key(l) == [length |-> l.length, last_time |-> l.last_time, state |-> l.state]

\* The pixel size of a tile's bitmap: ((full_w * 4) as i32, (h * 4) as i32).
waveform_size(l) ==
    [width  |-> (l.length * WAVEFORM_WIDTH * IMAGE_SCALE) \div time_width,
     height |-> LOOPER_HEIGHT * IMAGE_SCALE]

\* The cache used in every mode but Recording.
waveform_use_cache_while_overdubbing(l) == l.state # "Recording"

\* The use_cache argument of the tile's draw.
waveform_use_cache(l) == l.state # "Recording" /\ l.state # "Overdubbing"

\* let full_w = (looper.length / time_width) * w
full_w(l) == time_to_pixels(l.length)

\* let start_time = ...
start_time(t, length) ==
    IF t < length THEN 0 ELSE ((t \div length) - 1) * length

\* A marker on every tile.
marks_seam_always(start, first) == TRUE

\* if start_time != 0 || !first
marks_seam(start, first) == start # 0 \/ ~first

RECURSIVE tile_loop_one_window(_, _, _, _, _)
\* The loop ending at the right edge of the viewport: while x < w.
tile_loop_one_window(x, first, st, l, start) ==
    IF x < w_units
    THEN LET d == cache_draw(st.cache, waveform_key(l), waveform_size(l),
                             waveform_use_cache(l))
         IN  tile_loop_one_window(x + full_w(l), FALSE,
                       [tiles      |-> Append(st.tiles, x),
                        loop_icons |-> IF marks_seam(start, first)
                                       THEN Append(st.loop_icons, x)
                                       ELSE st.loop_icons,
                        cache      |-> d.cache,
                        renders    |-> st.renders + d.renders],
                       l, start)
    ELSE st

RECURSIVE tile_loop(_, _, _, _, _)
\* while x < w * 2.0 { ... }: st holds the tiles drawn, the loop icons
\* pushed, the waveform cache and the count of draw_fn runs so far.
tile_loop(x, first, st, l, start) ==
    IF x < w_units * 2
    THEN LET d == cache_draw(st.cache, waveform_key(l), waveform_size(l),
                             waveform_use_cache(l))
         IN  tile_loop(x + full_w(l), FALSE,
                       [tiles      |-> Append(st.tiles, x),
                        loop_icons |-> IF marks_seam(start, first)
                                       THEN Append(st.loop_icons, x)
                                       ELSE st.loop_icons,
                        cache      |-> d.cache,
                        renders    |-> st.renders + d.renders],
                       l, start)
    ELSE st

\* The Recording branch drawn at the left edge, without the translate.
recording_segment_untranslated(l) ==
    LET pre_floor == to_waveform(time_width) \div ZERO_RATIO_INV
        n == IF pre_floor < l.samples THEN pre_floor ELSE l.samples
        width == n * ZERO_RATIO_INV * time_width
    IN  [x |-> 0, width |-> width, from |-> l.samples - n, len |-> n]

\* The Recording branch: the part of the envelope drawn, its on-screen
\* width and the x it is translated to.
recording_segment(l) ==
    LET pre_floor == to_waveform(time_width) \div ZERO_RATIO_INV
        n == IF pre_floor < l.samples THEN pre_floor ELSE l.samples
        width == n * ZERO_RATIO_INV * time_width
    IN  [x |-> zero_x - width, width |-> width, from |-> l.samples - n, len |-> n]

\* The offsets with the sign taken before the remainder:
\* (-time_to_x).rem_euclid(w).
beat_offsets_negated_first(t) ==
    LET x == rem_euclid(-time_to_x(t), w_units) IN <<x, x + w_units>>

\* The offsets of the two beat grid draws.
beat_offsets(t) ==
    LET x == -rem_euclid(time_to_x(t), w_units) IN <<x, x + w_units>>

\* The frame's tile drawing: the tiles, the loop icons, the waveform cache
\* afterwards and the count of draw_fn runs.
draw_tiles(l, t, cache) ==
    IF l.length > 0 /\ l.state # "Recording"
    THEN tile_loop(-time_to_x(t - start_time(t, l.length)), TRUE,
                   [tiles |-> <<>>, loop_icons |-> <<>>,
                    cache |-> cache, renders |-> 0],
                   l, start_time(t, l.length))
    ELSE [tiles |-> <<>>, loop_icons |-> <<>>, cache |-> cache, renders |-> 0]

\* WaveformView::draw
WaveformViewDraw(l, t) ==
    \E st \in {draw_tiles(l, t, waveform)} :
    \E b1 \in {cache_draw(beats, [bpm |-> l.bpm], [width |-> 0, height |-> 0], FALSE)} :
    \E b2 \in {cache_draw(b1.cache, [bpm |-> l.bpm], [width |-> 0, height |-> 0], FALSE)} :
        /\ looper' = l
        /\ time' = t
        /\ old_waveform' = waveform
        /\ waveform' = st.cache
        /\ beats' = b2.cache
        /\ shown' = [start_time |-> IF l.length > 0 /\ l.state # "Recording"
                                    THEN start_time(t, l.length) ELSE 0,
                     tiles |-> st.tiles,
                     loop_icons |-> st.loop_icons,
                     segment |-> IF l.length > 0 /\ l.state = "Recording"
                                 THEN Some(recording_segment(l)) ELSE NoneOpt,
                     beat_offsets |-> beat_offsets(t),
                     waveform_renders |-> st.renders,
                     beats_renders |-> b1.renders + b2.renders]
        /\ UNCHANGED tempoVars
        /\ UNCHANGED cacheVars
        /\ UNCHANGED pageVars
        /\ UNCHANGED caretVars

\* Loop lengths: shorter than an eighth of the window, half of it, and
\* longer than two windows.
Lengths == {1000, 6000, 48000}

\* Offsets of the transport time into a loop pass.
Offsets == {0, 500}

\* The number of whole loop passes the transport time goes up to.
MaxLoops == 2

\* The (mode, last_time) of the tracks that are tiled.
TiledTracks == {<<"Playing", 0>>, <<"Playing", 1>>, <<"Muted", 0>>, <<"Overdubbing", 0>>}

\* Lengths of the envelope of a recording track.
Samples == {0, 3, 40}

LooperData(length, last_time, mode, samples) ==
    [state |-> mode, bpm |-> 12000, length |-> length, last_time |-> last_time,
     samples |-> samples]

WaveformFrame ==
    \/ \E length \in Lengths, m \in TiledTracks, q \in -1..MaxLoops, r \in Offsets :
           WaveformViewDraw(LooperData(length, m[2], m[1], to_waveform(length)),
                            q * length + r)
    \/ WaveformViewDraw(LooperData(48000, 0, "Playing", to_waveform(48000)), 60000)
    \/ \E length \in Lengths, n \in Samples, t \in {0, 500} :
           WaveformViewDraw(LooperData(length, 0, "Recording", n), t)
    \/ \E mode \in {"Playing", "Recording"} :
           WaveformViewDraw(LooperData(0, 0, mode, 0), 500)

(***************************************************************************)
(* MainPage                                                                *)
(*                                                                         *)
(* Transport times are counted in milliseconds.  The progress value of    *)
(* the beat animation is kept as a numerator over length^3, the stroke    *)
(* width of the play head in thousandths of a pixel.  The tracks of the   *)
(* page's snapshots are empty (length 0), so that the WaveformView of a   *)
(* track, examined on its own above, draws no waveform here.              *)
(***************************************************************************)

\* FrameTime::to_ms, with the millisecond as the unit of FrameTime.
to_ms(t) == t

\* Tempo::beat: the index of the beat the time lies in; bpm in hundredths.
beat(bpm, t) == (to_ms(t) * bpm) \div 6000000

\* TimeSignature::beat_of_measure
beat_of_measure(upper, b) == b % upper

\* Where the pointer of an event lies: in the bounds of one widget, or of
\* none.  A mode button lies within the body of its track.
Target(widget, id, mode) == [mode |-> mode, widget |-> widget, id |-> id]
NoTarget == Target(None, 0, None)

PointerEvent(typ, button, target) == [typ |-> typ, button |-> button, target |-> target]
NoPointer == PointerEvent(None, None, NoTarget)

\* The event as the handle_event of one widget sees it.
as_seen(ev, inside) ==
    IF ev.typ = None THEN NoEvent ELSE MouseEvent(ev.typ, ev.button, inside)

in_add_button(ev) == ev.target.widget = "Add"
in_tempo_view(ev) == ev.target.widget = "Tempo"
in_active_button(ev, id) == ev.target.widget = "Active" /\ ev.target.id = id
in_looper_view(ev, id) == ev.target.widget \in {"Body", "Mode"} /\ ev.target.id = id
in_mode_button(ev, id, mode) ==
    ev.target.widget = "Mode" /\ ev.target.id = id /\ ev.target.mode = mode
in_bottom_button(ev, behavior) == ev.target.widget = behavior

\* Commands other than SetTempoBPM, and whether their send succeeded.
AddLooper(ok) == [cmd |-> "AddLooper", value |-> 0, ok |-> ok]
SelectLooperById(id, ok) == [cmd |-> "SelectLooperById", value |-> id, ok |-> ok]
\* Command::Looper(command, LooperTarget::Id(id))
Looper(command, id, ok) == [cmd |-> command, value |-> id, ok |-> ok]
SaveSession(ok) == [cmd |-> "SaveSession", value |-> 0, ok |-> ok]
LoadSession(ok) == [cmd |-> "LoadSession", value |-> 0, ok |-> ok]

Click(widget, id, button) == [widget |-> widget, id |-> id, button |-> button]

\* Animation::new
Animation(start, length) == [start_time |-> start, length |-> length]

\* AnimationFunction::EaseOutCubic of p = d / length, times length^3.
ease_out_cubic(d, length) ==
    (d - length) * (d - length) * (d - length) + length * length * length

\* Animation::value, times length^3.
animation_value(a, t) ==
    ease_out_cubic(to_ms(t) - to_ms(a.start_time), a.length)

\* 3.0 + (1.0 - v) * 5.0, in thousandths, for v over length^3.
stroke_width(v, length) ==
    LET one == length * length * length
    IN  3000 + (one - v) \div (one \div 5000)

NewLooperView(id) == [state |-> "Default", id |-> id, active_button |-> "Default"]

\* The removal loop without the insertion loop before it.
reconcile_inserts_nothing(views, ids) ==
    [id \in ids \cap DOMAIN views |-> views[id]]

\* The insertion loop without the removal loop after it.
reconcile_keeps_deleted(views, ids) ==
    [id \in ids \cup DOMAIN views |->
        IF id \in DOMAIN views THEN views[id] ELSE NewLooperView(id)]

\* "add views for new loopers", "remove deleted loopers"
reconcile(views, ids) ==
    [id \in ids |-> IF id \in DOMAIN views THEN views[id] ELSE NewLooperView(id)]

\* The views whose draw panics: data.loopers[id] without the key, or the
\* assert_eq!(self.id, looper.id), in a snapshot whose records carry their
\* keys as ids.
lookup_fails(views, snap) ==
    {id \in DOMAIN views : id \notin DOMAIN snap.loopers \/ views[id].id # id}

\* The beat animation restarted in every frame of the first beat.
pulse_restarts(anim, bom, t) ==
    IF bom = 0 /\ t >= 0 THEN Some(Animation(t, 500)) ELSE NoneOpt

\* The beat_animation field after the `if bom == 0 && time >= 0` block.
pulse(anim, bom, t) ==
    IF bom = 0 /\ t >= 0
    THEN IF anim = NoneOpt THEN Some(Animation(t, 500)) ELSE anim
    ELSE NoneOpt

\* The match looking at the button only.
looper_command_by_button(mode_of_looper, mode) ==
    CASE mode = "Recording"   -> Some("Record")
      [] mode = "Overdubbing" -> Some("Overdub")
      [] mode = "Muted"       -> Some("Mute")
      [] OTHER                -> NoneOpt

\* The command of a mode button, by the match on (looper.state, mode).
looper_command(mode_of_looper, mode) ==
    CASE mode_of_looper = "Recording" /\ mode = "Recording"     -> Some("Overdub")
      [] mode = "Recording"                                     -> Some("Record")
      [] mode_of_looper = "Overdubbing" /\ mode = "Overdubbing" -> Some("Play")
      [] mode = "Overdubbing"                                   -> Some("Overdub")
      [] mode_of_looper = "Muted" /\ mode = "Muted"             -> Some("Play")
      [] mode = "Muted"                                         -> Some("Mute")
      [] OTHER                                                  -> NoneOpt

ModeButtons == <<"Recording", "Soloed", "Overdubbing", "Muted">>

\* The mode buttons of LooperView::draw, in drawing order: the sends and
\* the on_click calls they make.
RECURSIVE mode_buttons(_, _, _, _, _)
mode_buttons(i, id, snap, ev, conn) ==
    IF i > Len(ModeButtons) THEN [sends |-> <<>>, clicks |-> <<>>]
    ELSE LET mode == ModeButtons[i]
             h    == handle_event("Default", as_seen(ev, in_mode_button(ev, id, mode)))
             cmd  == IF h.clicked = "Left"
                     THEN looper_command(snap.mode, mode) ELSE NoneOpt
             rest == mode_buttons(i + 1, id, snap, ev, conn)
         IN  [sends  |-> (IF cmd # NoneOpt THEN <<Looper(cmd[1], id, conn)>> ELSE <<>>)
                         \o rest.sends,
              clicks |-> (IF h.clicked # None
                          THEN <<Click("Mode", id, h.clicked)>> ELSE <<>>)
                         \o rest.clicks]

\* LooperView::draw: the view after it, its sends and its on_click calls.
LooperViewDraw(view, id, snap, ev, conn) ==
    LET a == handle_event(view.active_button, as_seen(ev, in_active_button(ev, id)))
        b == handle_event(view.state, as_seen(ev, in_looper_view(ev, id)))
        m == IF snap.show_buttons /\ b.state \in {"Hover", "Pressed"}
             THEN mode_buttons(1, id, snap, ev, conn)
             ELSE [sends |-> <<>>, clicks |-> <<>>]
    IN  [view   |-> [state |-> b.state, id |-> view.id, active_button |-> a.state],
         sends  |-> (IF a.clicked = "Left"
                     THEN <<SelectLooperById(id, conn)>> ELSE <<>>) \o m.sends,
         clicks |-> (IF a.clicked # None
                     THEN <<Click("Active", id, a.clicked)>> ELSE <<>>)
                    \o (IF b.clicked # None
                        THEN <<Click("Body", id, b.clicked)>> ELSE <<>>)
                    \o m.clicks]

\* AddButton::draw with a set_state that stores nothing.
AddButtonDraw_keeps_state(bs, ev, conn) ==
    LET h == handle_event(bs, as_seen(ev, in_add_button(ev)))
    IN  [state  |-> bs,
         sends  |-> IF h.clicked = "Left" THEN <<AddLooper(conn)>> ELSE <<>>,
         clicks |-> IF h.clicked # None
                    THEN <<Click("Add", 0, h.clicked)>> ELSE <<>>,
         panic  |-> h.clicked = "Left" /\ ~conn]

\* AddButton::draw: the send is unwrapped, so a failed one panics.
AddButtonDraw(bs, ev, conn) ==
    LET h == handle_event(bs, as_seen(ev, in_add_button(ev)))
    IN  [state  |-> h.state,
         sends  |-> IF h.clicked = "Left" THEN <<AddLooper(conn)>> ELSE <<>>,
         clicks |-> IF h.clicked # None
                    THEN <<Click("Add", 0, h.clicked)>> ELSE <<>>,
         panic  |-> h.clicked = "Left" /\ ~conn]

\* BottomButtonView::draw, with a home directory and a file chosen in the
\* dialog of Load.
BottomButtonViewDraw(ev, conn) ==
    LET save == handle_event("Default", as_seen(ev, in_bottom_button(ev, "Save")))
        load == handle_event("Default", as_seen(ev, in_bottom_button(ev, "Load")))
    IN  [sends  |-> (IF save.clicked = "Left" THEN <<SaveSession(conn)>> ELSE <<>>)
                    \o (IF load.clicked = "Left" THEN <<LoadSession(conn)>> ELSE <<>>),
         clicks |-> (IF save.clicked # None
                     THEN <<Click("Save", 0, save.clicked)>> ELSE <<>>)
                    \o (IF load.clicked # None
                        THEN <<Click("Load", 0, load.clicked)>> ELSE <<>>)]

\* The results of the looper views, by ascending id.
RECURSIVE in_order(_, _, _)
in_order(ids, drawn, field) ==
    IF ids = {} THEN <<>>
    ELSE LET id == CHOOSE i \in ids : \A j \in ids : i <= j
         IN  drawn[id][field] \o in_order(ids \ {id}, drawn, field)

\* MainPage::draw up to the panic of a looper view: the views before it,
\* by ascending id, are drawn, nothing after it is reached.
LookupPanic(views, snap, ev, conn) ==
    \E before \in {{id \in DOMAIN views :
                        \A bad \in lookup_fails(views, snap) : id < bad}} :
    \E drawn \in {[id \in before |->
                      LooperViewDraw(views[id], id,
                                     [mode |-> snap.loopers[id],
                                      show_buttons |-> snap.show_buttons],
                                     ev, conn)]} :
        /\ frame' = "lookup_panicked"
        /\ snapshot' = snap
        /\ pointer' = ev
        /\ old_ids' = DOMAIN loopers
        /\ loopers' = [id \in DOMAIN views |->
                          IF id \in before THEN drawn[id].view ELSE views[id]]
        /\ commands' = in_order(before, drawn, "sends")
        /\ clicks' = in_order(before, drawn, "clicks")
        /\ connected' = conn
        /\ UNCHANGED <<beat_animation, old_beat_animation, playhead, add_button>>
        /\ UNCHANGED <<state, old_state, button_state, last_event, data, sends>>
        /\ UNCHANGED cacheVars

\* MainPage::draw for one frame.  A panic ends the program: the widgets
\* drawn after the add button are not reached.
MainPageDraw(snap, ev, conn) ==
    \E views \in {reconcile(loopers, DOMAIN snap.loopers)} :
    IF lookup_fails(views, snap) # {}
    THEN /\ frame \in {"none", "drawn"}
         /\ LookupPanic(views, snap, ev, conn)
         /\ UNCHANGED waveVars
         /\ UNCHANGED caretVars
    ELSE
    \E drawn \in {[id \in DOMAIN views |->
                      LooperViewDraw(views[id], id,
                                     [mode |-> snap.loopers[id],
                                      show_buttons |-> snap.show_buttons],
                                     ev, conn)]} :
    \E anim \in {pulse(beat_animation,
                       beat_of_measure(snap.upper, beat(snap.bpm, snap.time)),
                       snap.time)} :
    \E add \in {IF Cardinality(DOMAIN views) < 5
                THEN AddButtonDraw(add_button, ev, conn)
                ELSE [state |-> add_button, sends |-> <<>>, clicks |-> <<>>,
                      panic |-> FALSE]} :
    \E bottom \in {IF snap.show_buttons
                   THEN BottomButtonViewDraw(ev, conn)
                   ELSE [sends |-> <<>>, clicks |-> <<>>]} :
        /\ frame \in {"none", "drawn"}
        /\ snapshot' = snap
        /\ pointer' = ev
        /\ old_ids' = DOMAIN loopers
        /\ loopers' = [id \in DOMAIN views |-> drawn[id].view]
        /\ old_beat_animation' = beat_animation
        /\ beat_animation' = anim
        /\ playhead' =
               IF anim # NoneOpt
               THEN [v |-> Some(animation_value(anim[1], snap.time)),
                     stroke_width |->
                         stroke_width(animation_value(anim[1], snap.time),
                                      anim[1].length)]
               ELSE [v |-> NoneOpt, stroke_width |-> 3000]
        /\ add_button' = add.state
        /\ IF add.panic
           THEN /\ frame' = "panicked"
                /\ commands' = in_order(DOMAIN views, drawn, "sends") \o add.sends
                /\ clicks' = in_order(DOMAIN views, drawn, "clicks") \o add.clicks
                /\ connected' = conn
                /\ UNCHANGED <<state, old_state, button_state, last_event,
                               data, sends>>
                /\ UNCHANGED cacheVars
           ELSE /\ frame' = "drawn"
                /\ TempoViewDraw(as_seen(ev, in_tempo_view(ev)),
                                 [bpm |-> snap.bpm], conn)
                /\ commands' = in_order(DOMAIN views, drawn, "sends")
                               \o add.sends \o bottom.sends \o sends'
                /\ clicks' =
                       in_order(DOMAIN views, drawn, "clicks")
                       \o add.clicks \o bottom.clicks
                       \o (IF handle_event(button_state,
                                           as_seen(ev, in_tempo_view(ev))).clicked # None
                           THEN <<Click("Tempo", 0, ev.button)>> ELSE <<>>)
        /\ UNCHANGED waveVars
        /\ UNCHANGED caretVars

\* Transport times of the page's frames, with 60 bpm in 4/4: the first
\* beat of a measure lasts from 0 to 1000.
PageTimes == {-250, 0, 750, 1250}

LooperIds == {1, 2}

\* data.loopers maps the ids to empty tracks of one mode.
Snapshot(ids, mode, t, show) ==
    [time |-> t, loopers |-> [id \in ids |-> mode], bpm |-> 6000, upper |-> 4,
     show_buttons |-> show]

\* The modes of a track in the frames with a pointer over its mode buttons.
LooperModes == {"Playing", "Recording", "Overdubbing", "Muted"}

Presses == {<<"MouseDown", "Left">>, <<"MouseDown", "Right">>,
            <<"MouseUp", "Left">>, <<"Moved", None>>}

PlainTargets ==
    {NoTarget, Target("Add", 0, None), Target("Tempo", 0, None),
     Target("Body", 1, None), Target("Active", 1, None), Target("Active", 2, None)}

PageFrame ==
    \/ \E ids \in SUBSET LooperIds, t \in PageTimes :
           MainPageDraw(Snapshot(ids, "Playing", t, FALSE), NoPointer, connected)
    \/ \E ids \in {{1}, {1, 2}}, p \in Presses, target \in PlainTargets,
          conn \in {connected, FALSE} :
           MainPageDraw(Snapshot(ids, "Playing", 0, FALSE),
                        PointerEvent(p[1], p[2], target), conn)
    \/ \E mode \in LooperModes, m \in {ModeButtons[i] : i \in DOMAIN ModeButtons},
          p \in {<<"MouseDown", "Left">>, <<"MouseDown", "Right">>, <<"Moved", None>>},
          conn \in {connected, FALSE} :
           MainPageDraw(Snapshot({1}, mode, 0, TRUE),
                        PointerEvent(p[1], p[2], Target("Mode", 1, m)), conn)
    \/ \E behavior \in {"Save", "Load"}, conn \in {connected, FALSE} :
           MainPageDraw(Snapshot({1}, "Playing", 0, TRUE),
                        PointerEvent("MouseDown", "Left", Target(behavior, 0, None)),
                        conn)

(***************************************************************************)
(* Specifications                                                          *)
(***************************************************************************)

InitTempo ==
    /\ state = Default
    /\ old_state = Default
    /\ button_state = "Default"
    /\ last_event = NoEvent
    /\ data = [bpm |-> 12000]
    /\ connected = TRUE
    /\ sends = <<>>

InitCache ==
    /\ image = NoneOpt
    /\ key = NoneOpt
    /\ old_image = NoneOpt
    /\ old_key = NoneOpt
    /\ call = NoneOpt
    /\ draw_fn_calls = <<>>
    /\ blits = 0
    /\ history = <<>>

InitWaveform ==
    /\ looper = LooperData(0, 0, "Playing", 0)
    /\ time = 0
    /\ waveform = EmptyCache
    /\ old_waveform = EmptyCache
    /\ beats = EmptyCache
    /\ shown = [start_time |-> 0, tiles |-> <<>>, loop_icons |-> <<>>,
                segment |-> NoneOpt, beat_offsets |-> <<>>,
                waveform_renders |-> 0, beats_renders |-> 0]

InitPage ==
    /\ loopers = <<>>
    /\ old_ids = {}
    /\ beat_animation = NoneOpt
    /\ old_beat_animation = NoneOpt
    /\ add_button = "Default"
    /\ snapshot = Snapshot({}, "Playing", 0, FALSE)
    /\ pointer = NoPointer
    /\ playhead = [v |-> NoneOpt, stroke_width |-> 3000]
    /\ commands = <<>>
    /\ clicks = <<>>
    /\ frame = "none"

InitCaret ==
    /\ clock = 0
    /\ caret = [state |-> Default, drawn |-> FALSE]

Init == InitTempo /\ InitCache /\ InitWaveform /\ InitPage /\ InitCaret

Next == Frame

Spec == Init /\ [][Next]_vars

NextCache == Draw

SpecCache == Init /\ [][NextCache]_vars

NextWaveform == WaveformFrame

SpecWaveform == Init /\ [][NextWaveform]_vars

NextPage == PageFrame

SpecPage == Init /\ [][NextPage]_vars

NextCaret == CaretFrame

SpecCaret == Init /\ [][NextCaret]_vars

(***************************************************************************)
(* Properties of TempoView                                                 *)
(***************************************************************************)

KeyPressed(ev, k) == ev.kind = "KeyEvent" /\ ev.typ = "Pressed" /\ ev.key = k

NumericKeyPressed(ev) == KeyPressed(ev, "Char") /\ is_numeric(ev.c)

MouseDown(ev) == ev.kind = "MouseEvent" /\ ev.typ = "MouseDown"

\* The frames in which TempoView::draw calls commit.
CommitFrame(ev) ==
    \/ old_state.tag = "Editing" /\ (KeyPressed(ev, "Enter") \/ KeyPressed(ev, "Esc"))
    \/ MouseDown(ev) /\ ev.button = "Left" /\ ~ev.inside

AllButLast(s) == IF s = <<>> THEN <<>> ELSE [i \in 1..(Len(s) - 1) |-> s[i]]

\* C1: a commit of the editor in Editing with buffer b sends exactly one
\* SetTempoBPM with the decimal value of b when b parses ("120" gives 120)
\* and sends nothing when it does not (the empty buffer included); whether
\* or not the send succeeds, the state is Default afterwards.
C1_CommitEmits ==
    (old_state.tag = "Editing" /\ CommitFrame(last_event)) =>
        LET b == old_state.buffer
        IN  /\ state = Default
            /\ from_str(b).ok =>
                   sends = <<SetTempoBPM(from_str(b).val, connected)>>
            /\ ~from_str(b).ok => sends = <<>>
            /\ b = <<49, 50, 48>> => sends = <<SetTempoBPM(120, connected)>>
            /\ b = <<>> => sends = <<>>

\* "120" was committed on a channel whose receiver is gone.
C1_Witness ==
    /\ old_state = Editing(FALSE, <<49, 50, 48>>)
    /\ KeyPressed(last_event, "Enter")
    /\ ~connected
    /\ sends = <<SetTempoBPM(120, FALSE)>>
    /\ state = Default

\* C2: in Default, a left pointer-down inside the bounds gives Editing with
\* selected = true and the snapshot's tempo, truncated to an integer, as
\* decimal text, and sends nothing.
C2_ClickSeeds ==
    (old_state = Default /\ MouseDown(last_event) /\ last_event.button = "Left"
        /\ last_event.inside) =>
        /\ state.tag = "Editing"
        /\ state.selected
        /\ from_str(state.buffer).ok
        /\ from_str(state.buffer).val * 100 <= data.bpm
        /\ data.bpm < (from_str(state.buffer).val + 1) * 100
        /\ state.buffer[1] # 48 \/ Len(state.buffer) = 1
        /\ sends = <<>>

\* A click at 99.5 bpm seeded "99".
C2_Witness ==
    /\ old_state = Default
    /\ MouseDown(last_event) /\ last_event.button = "Left" /\ last_event.inside
    /\ data.bpm = 9950
    /\ state = Editing(TRUE, <<57, 57>>)

\* C3: in Editing with selected = true, a pressed numeric key c makes the
\* buffer the one-character text c and selected false; the state stays
\* Editing.
C3_ReplaceOnType ==
    (old_state.tag = "Editing" /\ old_state.selected
        /\ NumericKeyPressed(last_event)) =>
        state = Editing(FALSE, <<last_event.c>>)

\* A four-character seed was replaced by one typed character.
C3_Witness ==
    /\ old_state = Editing(TRUE, <<49, 48, 48, 48>>)
    /\ NumericKeyPressed(last_event)
    /\ state = Editing(FALSE, <<last_event.c>>)

\* C4: in Editing with selected = false, a pressed numeric key is appended
\* when the buffer has fewer than 3 characters and ignored when it has 3;
\* selected stays false and the state stays Editing.
C4_AppendCapped ==
    (old_state.tag = "Editing" /\ ~old_state.selected
        /\ NumericKeyPressed(last_event)) =>
        state = Editing(FALSE,
                        IF Len(old_state.buffer) < 3
                        THEN Append(old_state.buffer, last_event.c)
                        ELSE old_state.buffer)

\* C5: in Editing, a pressed Backspace empties the buffer when selected
\* and removes the last character otherwise (nothing when empty); the
\* selected flag and the Editing state stay, and nothing is sent.
C5_Backspace ==
    (old_state.tag = "Editing" /\ KeyPressed(last_event, "Backspace")) =>
        /\ state = Editing(old_state.selected,
                           IF old_state.selected THEN <<>>
                           ELSE AllButLast(old_state.buffer))
        /\ sends = <<>>

\* Backspace removed the last of two typed characters.
C5_Witness ==
    /\ old_state = Editing(FALSE, <<49, 50>>)
    /\ KeyPressed(last_event, "Backspace")
    /\ state = Editing(FALSE, <<49>>)

\* C6 as stated: while Editing, a pressed Enter, a pressed Escape and every
\* pointer-down outside the bounds, whatever the button, end the frame in
\* Default.
C6_AnyButtonCommits ==
    (old_state.tag = "Editing"
        /\ (\/ KeyPressed(last_event, "Enter")
            \/ KeyPressed(last_event, "Esc")
            \/ MouseDown(last_event) /\ ~last_event.inside)) =>
        state = Default

\* C6: while Editing, a pressed Enter, a pressed Escape and a left-button
\* pointer-down outside the bounds end the frame in Default; a pointer-down
\* of another button outside the bounds leaves the editor as it was.
C6_LeftButtonCommits ==
    /\ (old_state.tag = "Editing"
           /\ (\/ KeyPressed(last_event, "Enter")
               \/ KeyPressed(last_event, "Esc")
               \/ MouseDown(last_event) /\ last_event.button = "Left"
                      /\ ~last_event.inside)) =>
           state = Default
    /\ (old_state.tag = "Editing" /\ MouseDown(last_event)
           /\ last_event.button # "Left" /\ ~last_event.inside) =>
           (state = old_state /\ sends = <<>>)

\* Escape ended an edit.
C6_Witness ==
    /\ old_state.tag = "Editing"
    /\ KeyPressed(last_event, "Esc")
    /\ state = Default

\* C7: the buffer of every reachable Editing state holds decimal digits
\* only, so a commit of a non-empty buffer always sends a SetTempoBPM.
C7_DigitsOnly ==
    /\ state.tag = "Editing" =>
           \A i \in 1..Len(state.buffer) : IsAsciiDigit(state.buffer[i])
    /\ (old_state.tag = "Editing" /\ old_state.buffer # <<>>
           /\ CommitFrame(last_event)) => sends # <<>>

(***************************************************************************)
(* Properties of DrawCache                                                 *)
(***************************************************************************)

\* The pixel size the call just made asks for.
Requested(c) == [width |-> (c.w * 4) \div 8, height |-> (c.h * 4) \div 8]

C9_Bypass ==
    \A c \in {call[i] : i \in 1..Len(call)} :
        ~c.use_cache =>
            /\ draw_fn_calls = <<[target |-> Canvas, w |-> c.w, h |-> c.h]>>
            /\ blits = 0
            /\ image = old_image
            /\ key = old_key

\* A bypassing call was made while a bitmap was stored.
C9_Witness ==
    /\ call # NoneOpt
    /\ ~call[1].use_cache
    /\ old_image # NoneOpt
    /\ image = old_image
    /\ blits = 0

\* The use_cache calls among the call just made (one or none).
CachedCalls == {call[i] : i \in {j \in 1..Len(call) : call[j].use_cache}}

\* C11 as stated: a key is stored exactly when a bitmap is, and after a
\* use_cache call the stored key is the requested one and the bitmap's
\* pixel dimensions are the requested size times 4.
C11_StoredIsRequestedTimesScale ==
    /\ (key = NoneOpt) <=> (image = NoneOpt)
    /\ \A c \in CachedCalls :
           /\ key = Some(c.key)
           /\ image # NoneOpt
           /\ image[1].width * 8 = c.w * 4
           /\ image[1].height * 8 = c.h * 4

\* C11: a key is stored exactly when a bitmap is, and after a use_cache
\* call the stored key is the requested one and the one stored bitmap has
\* the requested size times 4, truncated to whole pixels.
C11_StoredIsRequestedTruncated ==
    /\ (key = NoneOpt) <=> (image = NoneOpt)
    /\ Len(key) <= 1 /\ Len(image) <= 1
    /\ \A c \in CachedCalls :
           /\ key = Some(c.key)
           /\ image # NoneOpt
           /\ image[1].width * 8 <= c.w * 4
           /\ c.w * 4 < (image[1].width + 1) * 8
           /\ image[1].height * 8 <= c.h * 4
           /\ c.h * 4 < (image[1].height + 1) * 8

\* A bitmap of another key and size was replaced by one 4 pixels wide for
\* a requested width of 1.125 pixels.
C11_Witness ==
    /\ call # NoneOpt
    /\ call[1].use_cache
    /\ call[1].w = 9
    /\ old_key # NoneOpt
    /\ old_key # Some(call[1].key)
    /\ old_image # image
    /\ image = Some([width |-> 4, height |-> 5])

Pair(e) == <<e.key, e.size>>

\* C10 as stated: over the use_cache calls made so far, draw_fn ran once
\* per distinct (key, size) requested.
C10_OncePerDistinctPair ==
    Cardinality({i \in 1..Len(history) : history[i].invoked})
        = Cardinality({Pair(history[i]) : i \in 1..Len(history)})

\* C10: over the use_cache calls made so far, a call ran draw_fn exactly
\* when it was the first or its (key, pixel size) differs from that of the
\* call before it.
C10_OncePerChange ==
    \A i \in 1..Len(history) :
        history[i].invoked
            <=> (i = 1 \/ Pair(history[i]) # Pair(history[i - 1]))

\* A pair was requested, replaced by another, and requested again.
C10_Witness ==
    /\ Len(history) = 3
    /\ Pair(history[1]) = Pair(history[3])
    /\ Pair(history[1]) # Pair(history[2])
    /\ history[3].invoked

(***************************************************************************)
(* Properties of WaveformView                                              *)
(***************************************************************************)

\* The frame just drawn tiled the loop: a non-empty, non-recording track.
Tiled == looper.length > 0 /\ looper.state # "Recording"

\* The greatest multiple of length strictly less than b.
GreatestMultipleBelow(length, b) ==
    CHOOSE m \in {k * length : k \in -3..(MaxLoops + 2)} :
        m < b /\ m + length >= b

\* C12: the tiling start is 0 when t_now < L and otherwise the greatest
\* multiple of L strictly less than t_now - L; L = 48000, t_now = 60000
\* gives 0.
C12_StartStrictlyBelow ==
    Tiled =>
        /\ time < looper.length => shown.start_time = 0
        /\ time >= looper.length =>
               shown.start_time =
                   GreatestMultipleBelow(looper.length, time - looper.length)
        /\ (looper.length = 48000 /\ time = 60000) => shown.start_time = 0

\* C13: for t_now >= 0 the tiles, each full_w wide, cover [0, 2w) leaving
\* no gap wider than one tile.
C13_TilesCover ==
    (Tiled /\ time >= 0) =>
        LET tiles == shown.tiles
            fw == full_w(looper)
        IN  /\ tiles # <<>>
            /\ tiles[1] <= fw
            /\ \A i \in 1..(Len(tiles) - 1) : tiles[i + 1] - (tiles[i] + fw) <= fw
            /\ tiles[Len(tiles)] + fw >= w_units * 2

\* C14: when the loop is tiled, a loop-boundary marker is drawn at the x of
\* every tile of the frame, except the first tile when start = 0, and
\* nowhere else.
C14_SeamMarkers ==
    Tiled =>
        shown.loop_icons =
            IF shown.start_time = 0 /\ shown.tiles # <<>>
            THEN Tail(shown.tiles)
            ELSE shown.tiles

\* A frame with start = 0 and several tiles marked all but the first.
C14_Witness ==
    /\ Tiled
    /\ shown.start_time = 0
    /\ Len(shown.tiles) >= 2
    /\ shown.loop_icons = Tail(shown.tiles)

\* C15: while the track is Recording (L > 0) the frame draws no tile and
\* no marker and leaves the waveform cache as it was; the one segment
\* drawn is at most z*w wide and ends at the zero-ratio line x = z*w.
C15_Recording ==
    (looper.length > 0 /\ looper.state = "Recording") =>
        /\ shown.tiles = <<>>
        /\ shown.loop_icons = <<>>
        /\ shown.waveform_renders = 0
        /\ waveform = old_waveform
        /\ Len(shown.segment) = 1
        /\ shown.segment[1].width <= w_units \div 4
        /\ shown.segment[1].x + shown.segment[1].width = w_units \div 4

\* A recording frame with a longer envelope than fits left of the line,
\* drawn while the cache held a bitmap.
C15_Witness ==
    /\ looper.length > 0
    /\ looper.state = "Recording"
    /\ looper.samples = 40
    /\ old_waveform.image # NoneOpt
    /\ waveform = old_waveform
    /\ shown.segment # NoneOpt
    /\ shown.segment[1].len = 4

(***************************************************************************)
(* Properties of MainPage                                                  *)
(***************************************************************************)

\* C16: after the reconciliation of every frame the ids holding a view
\* are exactly the ids of the frame's snapshot.
C16_Reconciled ==
    frame # "none" => DOMAIN loopers = DOMAIN snapshot.loopers

\* A frame whose snapshot lost one id and gained another.
C16_Witness ==
    /\ frame # "none"
    /\ old_ids \ DOMAIN snapshot.loopers # {}
    /\ DOMAIN snapshot.loopers \ old_ids # {}
    /\ DOMAIN loopers = DOMAIN snapshot.loopers

\* The frame's beat of measure is 0 and its transport time is not negative.
FirstBeat ==
    /\ beat_of_measure(snapshot.upper, beat(snapshot.bpm, snapshot.time)) = 0
    /\ snapshot.time >= 0

\* C17: at the end of every frame a beat animation exists iff the beat of
\* measure is 0 and the time is >= 0; it is created only in a frame that
\* began with none, starting at the frame's time and lasting 500 ms; one
\* that exists is kept as it is while the condition holds; there is never
\* more than one.
C17_PulseLifecycle ==
    frame # "none" =>
        /\ beat_animation # NoneOpt <=> FirstBeat
        /\ Len(beat_animation) <= 1
        /\ (beat_animation # NoneOpt /\ old_beat_animation = NoneOpt) =>
               beat_animation = Some(Animation(snapshot.time, 500))
        /\ (beat_animation # NoneOpt /\ old_beat_animation # NoneOpt) =>
               beat_animation = old_beat_animation

\* A later frame of the same first beat kept the animation it found.
C17_Witness ==
    /\ frame # "none"
    /\ FirstBeat
    /\ old_beat_animation # NoneOpt
    /\ beat_animation = old_beat_animation
    /\ beat_animation[1].start_time # snapshot.time

\* C18: in every frame with a live animation the progress value lies in
\* [0, 1], so that the stroke width of the play head lies between 3 and 8.
C18_ProgressInRange ==
    (frame # "none" /\ playhead.v # NoneOpt) =>
        LET length == beat_animation[1].length
        IN  /\ playhead.v[1] >= 0
            /\ playhead.v[1] <= length * length * length
            /\ playhead.stroke_width >= 3000
            /\ playhead.stroke_width <= 8000

\* C19: a failed send of any command is not fatal: the frame is drawn to
\* its end and the command is dropped, not sent again.
C19_FailedSendNonFatal ==
    /\ frame # "panicked"
    /\ \A i \in 1..Len(commands) :
           ~commands[i].ok =>
               /\ frame = "drawn"
               /\ \A j \in 1..Len(commands) : commands[j] = commands[i] => j = i
               /\ commands[i].cmd = "SetTempoBPM" => state = Default

\* The state handle_event leaves in a widget whose bounds do or do not
\* hold the pointer of the frame.
StateFor(inside) ==
    IF inside
    THEN IF pointer.typ = "MouseDown" THEN "Pressed" ELSE "Hover"
    ELSE "Default"

\* The on_click invocations of one widget in the frame.
Fired(widget, id) ==
    Cardinality({i \in 1..Len(clicks) :
                    clicks[i].widget = widget /\ clicks[i].id = id})

AsSpecified(bs, inside, widget, id) ==
    /\ bs = StateFor(inside)
    /\ Fired(widget, id) = IF inside /\ pointer.typ = "MouseDown" THEN 1 ELSE 0

\* C20: in a frame with a pointer event, every button drawn is Hover when
\* the pointer is inside its bounds without a press, Pressed with on_click
\* invoked exactly once when it is pressed inside, and Default when the
\* pointer is outside, whatever its state was.
C20_ButtonStates ==
    (frame # "none" /\ pointer.typ # None) =>
        /\ AsSpecified(add_button, in_add_button(pointer), "Add", 0)
        /\ frame = "drawn" =>
               AsSpecified(button_state, in_tempo_view(pointer), "Tempo", 0)
        /\ \A id \in DOMAIN loopers :
               /\ AsSpecified(loopers[id].state, in_looper_view(pointer, id),
                              "Body", id)
               /\ AsSpecified(loopers[id].active_button,
                              in_active_button(pointer, id), "Active", id)

\* The active button of a track was pressed, and fired once, in a frame
\* that left every other button Default.
C20_Witness ==
    /\ frame = "drawn"
    /\ pointer.typ = "MouseDown"
    /\ 1 \in DOMAIN loopers
    /\ in_active_button(pointer, 1)
    /\ loopers[1].active_button = "Pressed"
    /\ Fired("Active", 1) = 1
    /\ loopers[1].state = "Default"
    /\ add_button = "Default"
    /\ button_state = "Default"

\* A WaveformView::draw has been made.
WaveformDrawn == shown.beat_offsets # <<>>

\* C21: the beat grid is drawn through the cache under the fingerprint of
\* the metric structure, so the two draws of a frame run the grid's draw
\* procedure at most once between them, and not at all when the cache
\* already held that fingerprint.
C21_GridThroughCache ==
    WaveformDrawn =>
        /\ beats.key = Some([bpm |-> looper.bpm])
        /\ shown.beats_renders <= 1

\* The waveform cache held the tile of this track when the frame began.
TileCached ==
    /\ old_waveform.key = Some(waveform_key(looper))
    /\ old_waveform.image = Some(waveform_size(looper))

\* C22 as stated: in every mode other than Recording the tiles go through
\* the cache, so a frame that began with the key and the size of its tiles
\* in the cache runs the waveform draw procedure for none of them, and any
\* other frame for at most one.
C22_TilesCachedUnlessRecording ==
    Tiled =>
        /\ shown.waveform_renders <= 1
        /\ TileCached => shown.waveform_renders = 0
        /\ shown.tiles # <<>> => waveform.key = Some(waveform_key(looper))

\* C22 amended: the same in every mode other than Recording and
\* Overdubbing; while Overdubbing every tile runs the draw procedure and
\* the cache is left as it was.
C22_TilesCachedUnlessWriting ==
    Tiled =>
        IF looper.state = "Overdubbing"
        THEN /\ shown.waveform_renders = Len(shown.tiles)
             /\ waveform = old_waveform
        ELSE /\ shown.waveform_renders <= 1
             /\ TileCached => shown.waveform_renders = 0
             /\ shown.tiles # <<>> =>
                    /\ waveform.key = Some(waveform_key(looper))
                    /\ waveform.image = Some(waveform_size(looper))

\* A frame of several tiles drawn wholly from the bitmap of an earlier one.
C22_Witness ==
    /\ Tiled
    /\ looper.state = "Playing"
    /\ TileCached
    /\ Len(shown.tiles) >= 2
    /\ shown.waveform_renders = 0

\* C25: for t_now >= 0 some tile drawn starts at or before the zero-ratio
\* line and has its loop position t_now mod L exactly at x = z*w.
C25_PlayheadAligned ==
    (Tiled /\ time >= 0) =>
        \E i \in 1..Len(shown.tiles) :
            /\ shown.tiles[i] <= zero_x
            /\ shown.tiles[i] + time_to_pixels(time % looper.length) = zero_x

\* In a later pass of the loop the tile under the play head is the second.
C25_Witness ==
    /\ Tiled
    /\ time > looper.length
    /\ time % looper.length # 0
    /\ Len(shown.tiles) >= 2
    /\ shown.tiles[1] + time_to_pixels(time % looper.length) # zero_x
    /\ shown.tiles[2] + time_to_pixels(time % looper.length) = zero_x

\* C26: for every transport time the tile loop draws n tiles, at exactly
\* x0 + k*Lw for k = 0..n-1, each of them < 2w, and x0 + n*Lw >= 2w.
C26_TileLoopEnds ==
    Tiled =>
        LET x0 == zero_x - time_to_pixels(time - shown.start_time)
            n  == Len(shown.tiles)
        IN  /\ \A k \in 0..(n - 1) :
                   /\ shown.tiles[k + 1] = x0 + k * full_w(looper)
                   /\ shown.tiles[k + 1] < 2 * w_units
            /\ x0 + n * full_w(looper) >= 2 * w_units

\* A frame at a negative transport time that drew several tiles.
C26_Witness ==
    /\ Tiled
    /\ time < 0
    /\ Len(shown.tiles) >= 2
    /\ shown.tiles[Len(shown.tiles)] < 2 * w_units

\* C27: in every frame the grid is drawn twice, at o and o + w with o
\* congruent to -x(t_now) modulo w, and the two copies, each w wide, cover
\* the viewport [0, w).
C27_GridCoversViewport ==
    WaveformDrawn =>
        /\ Len(shown.beat_offsets) = 2
        /\ shown.beat_offsets[2] = shown.beat_offsets[1] + w_units
        /\ (shown.beat_offsets[1] + time_to_pixels(time) - zero_x) % w_units = 0
        /\ shown.beat_offsets[1] <= 0
        /\ shown.beat_offsets[2] + w_units >= w_units

\* A frame at a negative transport time whose first copy begins left of
\* the viewport.
C27_Witness ==
    /\ WaveformDrawn
    /\ time < 0
    /\ shown.beat_offsets[1] < 0
    /\ shown.beat_offsets[2] > 0
    /\ shown.beat_offsets[2] < w_units

(***************************************************************************)
(* Further properties of TempoView                                         *)
(***************************************************************************)

\* The wall-clock milliseconds, out of the 1500 from the reading of the
\* frame on, at which the cursor of the state just drawn is drawn.
VisibleMillis == {m \in clock..(clock + 1499) : cursor_drawn(caret.state, m)}

\* C23: while Editing without selection the caret is drawn for 500 and
\* hidden for 1000 of every 1500 consecutive milliseconds; with a
\* selection it is never drawn.
C23_CaretDuty ==
    /\ (caret.state.tag = "Editing" /\ caret.state.selected) => ~caret.drawn
    /\ (caret.state.tag = "Editing" /\ ~caret.state.selected) =>
           /\ Cardinality(VisibleMillis) = 500
           /\ caret.drawn <=> clock \in VisibleMillis

\* C24: in every Editing state the buffer holds at most 3 characters.
C24_BufferAtMostThree ==
    state.tag = "Editing" => Len(state.buffer) <= 3

\* The events of C30 that the editor ignores in every state.
Ignored(ev) ==
    \/ ev = NoEvent
    \/ ev.kind = "KeyEvent" /\ ev.typ = "Released"
    \/ KeyPressed(ev, "Char") /\ ~is_numeric(ev.c)
    \/ ev.kind = "MouseEvent" /\ ev.typ \in {"Moved", "MouseUp"}

\* C30: a frame with no event, a released key, a pressed non-numeric
\* character or a pointer move or release leaves the editor state as it
\* was and sends nothing; in state Default no key event changes the state
\* or sends anything.
C30_IgnoredEvents ==
    (Ignored(last_event) \/ (last_event.kind = "KeyEvent" /\ old_state = Default))
        => (state = old_state /\ sends = <<>>)

\* An Enter released over a typed buffer left it as it was.
C30_Witness ==
    /\ last_event = KeyEvent("Released", "Enter", 0)
    /\ old_state.tag = "Editing"
    /\ ~old_state.selected
    /\ old_state.buffer # <<>>
    /\ state = old_state
    /\ sends = <<>>

\* A left pointer-down inside the bounds in a frame that began in Editing.
ClickWhileEditing ==
    /\ old_state.tag = "Editing"
    /\ MouseDown(last_event) /\ last_event.button = "Left"
    /\ last_event.inside

\* C31: a left click inside the tempo field while Editing does not commit
\* and sends nothing; the state becomes Editing with selected = true and
\* the buffer the decimal text of the snapshot's tempo truncated to an
\* integer, whatever the buffer held before.
C31_ClickWhileEditingReseeds ==
    ClickWhileEditing =>
        /\ sends = <<>>
        /\ state.tag = "Editing"
        /\ state.selected
        /\ from_str(state.buffer).ok
        /\ from_str(state.buffer).val = data.bpm \div 100
        /\ state.buffer[1] # 48 \/ Len(state.buffer) = 1

\* A click at 120 bpm over the typed digits "21" left "120", selected.
C31_Witness ==
    /\ ClickWhileEditing
    /\ old_state = Editing(FALSE, <<50, 49>>)
    /\ data.bpm = 12000
    /\ state = Editing(TRUE, <<49, 50, 48>>)
    /\ sends = <<>>

(***************************************************************************)
(* Further properties of MainPage                                          *)
(***************************************************************************)

\* The commands of the frame other than SelectLooperById, AddLooper,
\* SaveSession, LoadSession and SetTempoBPM.
PerTrack ==
    SelectSeq(commands,
              LAMBDA c : c.cmd \in {"Record", "Overdub", "Play", "Mute", "Solo"})

\* The command C28 gives for a button and the mode of its track.
Expected(mode_of_looper, button) ==
    IF button = "Recording"
    THEN IF mode_of_looper = "Recording" THEN <<"Overdub">> ELSE <<"Record">>
    ELSE IF button = "Overdubbing"
    THEN IF mode_of_looper = "Overdubbing" THEN <<"Play">> ELSE <<"Overdub">>
    ELSE IF button = "Muted"
    THEN IF mode_of_looper = "Muted" THEN <<"Play">> ELSE <<"Mute">>
    ELSE <<>>

\* A frame with a pointer event over a mode button of a track drawn with
\* its buttons.
OverModeButton ==
    /\ frame = "drawn"
    /\ pointer.target.widget = "Mode"
    /\ pointer.target.id \in DOMAIN snapshot.loopers
    /\ snapshot.show_buttons

\* C28: a left click on a mode button sends at most one per-track command,
\* to the id of the track, given by the mode of the track and the button:
\* record gives Overdub while Recording, else Record; overdub gives Play
\* while Overdubbing, else Overdub; mute gives Play while Muted, else Mute;
\* solo gives nothing; a click with another button, or no click, gives
\* nothing.
C28_ModeButtonCommand ==
    OverModeButton =>
        IF pointer.typ = "MouseDown" /\ pointer.button = "Left"
        THEN LET e == Expected(snapshot.loopers[pointer.target.id],
                               pointer.target.mode)
             IN  /\ Len(PerTrack) = Len(e)
                 /\ Len(PerTrack) <= 1
                 /\ \A i \in DOMAIN PerTrack :
                        /\ PerTrack[i].cmd = e[i]
                        /\ PerTrack[i].value = pointer.target.id
        ELSE PerTrack = <<>>

\* The record button of a Recording track was left-clicked: Overdub.
C28_Witness ==
    /\ OverModeButton
    /\ pointer.typ = "MouseDown" /\ pointer.button = "Left"
    /\ pointer.target.mode = "Recording"
    /\ snapshot.loopers[pointer.target.id] = "Recording"
    /\ Len(PerTrack) = 1
    /\ PerTrack[1].cmd = "Overdub"
    /\ PerTrack[1].value = pointer.target.id

\* C29: MainPage::draw never panics on a track lookup: every view drawn
\* has an id that is a key of the frame's snapshot and equal to the id it
\* was made for, also in frames where tracks were removed or added.
C29_LookupsSucceed ==
    /\ frame # "lookup_panicked"
    /\ frame # "none" =>
           \A id \in DOMAIN loopers :
               id \in DOMAIN snapshot.loopers /\ loopers[id].id = id

\* A frame drew the one track left of two.
C29_Witness ==
    /\ frame = "drawn"
    /\ Cardinality(old_ids) = 2
    /\ Cardinality(DOMAIN snapshot.loopers) = 1
    /\ \A id \in DOMAIN loopers :
           id \in DOMAIN snapshot.loopers /\ loopers[id].id = id
    /\ DOMAIN loopers # {}

====
